---------------------------- MODULE Spec2Model ----------------------------
(***************************************************************************)
(* Model of ATPOTS.h / ATPOTS.cpp: the potentiometer conditioner ATPOT     *)
(* (averaging with outlier rejection, debounce, dead zone, range mapping,  *)
(* change detection) and the MIDI control-change adapter ATMIDICCPOT.      *)
(*                                                                         *)
(* A program is a set of constructed instances (the domain of pots), the   *)
(* function-local static lastAverage of ATPOT::aRead, which all instances  *)
(* share, and the calls the sketch makes on the instances.  Every action   *)
(* is one whole call.  ev records what the last call did (its arguments,   *)
(* the locals of scan() and aRead(), the bytes given to Serial.write and   *)
(* the handler invocations, in order).                                     *)
(***************************************************************************)
EXTENDS Integers, Sequences, FiniteSets

VARIABLES
    pots,         \* instance id -> the fields of the ATPOT / ATMIDICCPOT object
    lastAverage,  \* static int lastAverage of ATPOT::aRead (one per process)
    solo,         \* instance id -> lastAverage and _lastReading of the same
                  \* instance run in a process of its own on the same samples
    fault,        \* "none", or the arithmetic fault a call ended in
    cfgCalls,     \* number of configuration calls made so far
    streak,       \* the scans made since the last configuration call: the
                  \* instance and readings of the latest one, and how it
                  \* follows the one before it
    ev            \* the last call: arguments, locals, observable effects

vars == <<pots, lastAverage, solo, fault, cfgCalls, streak, ev>>

(***************************************************************************)
(* Program constants and the bounds of the exploration.                    *)
(***************************************************************************)
MAX_ANALOG_POT_READING == 1023

\* Configuration calls (setters, INIT) explored after construction.
MaxConfigCalls == 1

\* Arguments the sketch passes.
DeadZones == {0, 1, 10}
\* <<minVal, maxVal, deadZonePercent>> given to the constructors with a range.
RangeArgs == {<<0, 127, 0>>, <<0, 1023, 1>>, <<-100, 300, 10>>}
\* <<ch, cc>> given to the ATMIDICCPOT constructor.
MidiArgs == {<<1, 7>>, <<20, 200>>}
Thresholds == {0, 3}
NumReadingsArgs == {2, 3, 4}
Channels == {0, 1, 9, 16, 20, 255}
ControlIds == {7, 200}
Tables == {<<10, 20, 30, 40>>, <<200, 5>>}

\* What analogRead() returns during one batch: the pattern, repeated.
Patterns ==
    { <<0, 0, 0>>, <<500, 500, 500>>, <<1001, 1020, 1013>>,
      <<480, 503, 510>>, <<505, 520, 470>> }

\* Values an uninitialised int member may hold.
Indeterminate == {0, 515}

(***************************************************************************)
(* C and Arduino arithmetic.                                               *)
(***************************************************************************)
\* int / int: the quotient truncated toward zero (b # 0).
CDiv(a, b) ==
    IF b > 0
    THEN (IF a >= 0 THEN a \div b ELSE -((-a) \div b))
    ELSE (IF a >= 0 THEN -(a \div (-b)) ELSE (-a) \div (-b))

abs(x) == IF x < 0 THEN -x ELSE x

\* Arduino's constrain(amt, low, high).
constrain(amt, low, high) ==
    IF amt < low THEN low ELSE IF amt > high THEN high ELSE amt

\* Arduino's map(x, in_min, in_max, out_min, out_max), in long arithmetic.
map(x, in_min, in_max, out_min, out_max) ==
    CDiv((x - in_min) * (out_max - out_min), in_max - in_min) + out_min

\* Conversion of an int to byte (uint8_t).
ToByte(x) == x % 256

\* _deadZoneFactor = MAX_ANALOG_POT_READING * _deadZonePercent / 100, the
\* float product converted to int (percent is a whole number here).
DeadZoneFactor(percent) == CDiv(MAX_ANALOG_POT_READING * percent, 100)

(***************************************************************************)
(* Construction.                                                           *)
(***************************************************************************)
\* Mutant of Members: _lastReading starts at 0.
MembersLastReadingZero(kind, raw) ==
    [ kind |-> kind,
      minVal |-> 0, maxVal |-> MAX_ANALOG_POT_READING,
      lastReading |-> 0,
      deadZonePercent |-> 0, deadZoneFactor |-> 0,
      changeHandler |-> FALSE,
      numReadings |-> 10, debounceThreshold |-> 5,
      rawValue |-> raw, value |-> raw, hasChanged |-> FALSE,
      mesg |-> 0, cc |-> 0, varr |-> <<>>, count |-> 0, valueType |-> FALSE ]

\* The members' default initialisers; rawValue and value have none.
Members(kind, raw) ==
    [ kind |-> kind,
      minVal |-> 0, maxVal |-> MAX_ANALOG_POT_READING,
      lastReading |-> -1,
      deadZonePercent |-> 0, deadZoneFactor |-> 0,
      changeHandler |-> FALSE,
      numReadings |-> 10, debounceThreshold |-> 5,
      rawValue |-> raw, value |-> raw, hasChanged |-> FALSE,
      mesg |-> 0, cc |-> 0, varr |-> <<>>, count |-> 0, valueType |-> FALSE ]

\* ATPOT(pin, minVal, maxVal, deadZonePercent, handler)
ATPOT5(m, minVal, maxVal, percent, handler) ==
    [m EXCEPT !.minVal = minVal, !.maxVal = maxVal,
              !.deadZonePercent = percent,
              !.deadZoneFactor = DeadZoneFactor(percent),
              !.changeHandler = handler]

\* ATPOT(pin, minVal, maxVal, deadZonePercent)
ATPOT4(m, minVal, maxVal, percent) ==
    [m EXCEPT !.minVal = minVal, !.maxVal = maxVal,
              !.deadZonePercent = percent,
              !.deadZoneFactor = DeadZoneFactor(percent)]

\* ATPOT(pin, deadZonePercent)
ATPOT2(m, percent) ==
    [m EXCEPT !.minVal = 0, !.maxVal = MAX_ANALOG_POT_READING,
              !.deadZonePercent = percent,
              !.deadZoneFactor = DeadZoneFactor(percent)]

\* ATPOT(pin)
ATPOT1(m) ==
    [m EXCEPT !.minVal = 0, !.maxVal = MAX_ANALOG_POT_READING,
              !.deadZonePercent = 0,
              !.deadZoneFactor = DeadZoneFactor(0)]

\* Mutant of InitPlain: the channel is not constrained to 1..16.
InitPlainUnclamped(pot, ch, cc) ==
    [pot EXCEPT !.valueType = FALSE, !.mesg = ToByte(175 + ch), !.cc = cc]

\* ATMIDICCPOT::INIT(ch, cc)
InitPlain(pot, ch, cc) ==
    [pot EXCEPT !.valueType = FALSE,
                !.mesg = ToByte(175 + constrain(ch, 1, 16)),
                !.cc = cc]

\* ATMIDICCPOT::INIT(ch, cc, values, count)
InitTable(pot, ch, cc, values, count) ==
    [pot EXCEPT !.mesg = ToByte(175 + constrain(ch, 1, 16)),
                !.cc = cc, !.count = count, !.varr = values,
                !.valueType = TRUE]

\* ATMIDICCPOT(pin, ch, cc) : ATPOT{pin, 0, 127, 1}
ATMIDICCPOT3(m, ch, cc) == InitPlain(ATPOT4(m, 0, 127, 1), ch, cc)

(***************************************************************************)
(* ATPOT::aRead.                                                           *)
(***************************************************************************)
\* The values analogRead(_pin) returns in the n calls of one batch.
Readings(pat, n) == [i \in 1..n |-> pat[((i - 1) % Len(pat)) + 1]]

\* The sampling loop from index i on: total, minVal and maxVal so far.
RECURSIVE ReadLoop(_, _, _)
ReadLoop(readings, i, acc) ==
    IF i > Len(readings)
    THEN acc
    ELSE ReadLoop(readings, i + 1,
            [ total  |-> acc.total + readings[i],
              minVal |-> IF readings[i] < acc.minVal THEN readings[i] ELSE acc.minVal,
              maxVal |-> IF readings[i] > acc.maxVal THEN readings[i] ELSE acc.maxVal ])

\* Mutant of CurrentAverage: the reduced total is divided by n.
CurrentAverageOverN(readings, n) ==
    LET acc == ReadLoop(readings, 1, [total |-> 0, minVal |-> 1024, maxVal |-> -1])
    IN  CDiv(acc.total - (acc.minVal + acc.maxVal), n)

\* currentAverage: the total less the lowest and the highest reading, over n - 2.
CurrentAverage(readings, n) ==
    LET acc == ReadLoop(readings, 1, [total |-> 0, minVal |-> 1024, maxVal |-> -1])
    IN  CDiv(acc.total - (acc.minVal + acc.maxVal), n - 2)

\* Mutant of Debounce: a change equal to the threshold is taken for noise.
DebounceInclusive(currentAverage, last, threshold) ==
    IF abs(currentAverage - last) <= threshold
    THEN [ret |-> last, lastAverage |-> last]
    ELSE [ret |-> currentAverage, lastAverage |-> currentAverage]

\* Mutant of Debounce: a significant change is remembered, the old average returned.
DebounceReturnsStale(currentAverage, last, threshold) ==
    IF abs(currentAverage - last) < threshold
    THEN [ret |-> last, lastAverage |-> last]
    ELSE [ret |-> last, lastAverage |-> currentAverage]

\* Mutant of Debounce: a significant change is returned but not remembered.
DebounceForgets(currentAverage, last, threshold) ==
    IF abs(currentAverage - last) < threshold
    THEN [ret |-> last, lastAverage |-> last]
    ELSE [ret |-> currentAverage, lastAverage |-> last]

\* The debounce step: the value returned and the new lastAverage.
Debounce(currentAverage, last, threshold) ==
    IF abs(currentAverage - last) < threshold
    THEN [ret |-> last, lastAverage |-> last]
    ELSE [ret |-> currentAverage, lastAverage |-> currentAverage]

(***************************************************************************)
(* ATPOT::scan, ATPOT::changed, ATMIDICCPOT::changed.                      *)
(***************************************************************************)
\* Mutant of Compensate: the dead zone is not applied.
CompensateNoDeadZone(val, deadZoneFactor) ==
    constrain(val, 0, MAX_ANALOG_POT_READING)

\* Mutant of Compensate: the mapped reading is not constrained into 0..1023.
CompensateUnconstrained(val, deadZoneFactor) ==
    map(val, deadZoneFactor, MAX_ANALOG_POT_READING - deadZoneFactor,
        0, MAX_ANALOG_POT_READING)

\* Mutant of Compensate: the quotient of the dead-zone map is rounded to nearest.
CompensateRounded(val, deadZoneFactor) ==
    constrain(CDiv(2 * (val - deadZoneFactor) * MAX_ANALOG_POT_READING
                      + (MAX_ANALOG_POT_READING - 2 * deadZoneFactor),
                   2 * (MAX_ANALOG_POT_READING - 2 * deadZoneFactor)),
              0, MAX_ANALOG_POT_READING)

\* val after the dead zone: map, then constrain into 0..1023.
Compensate(val, deadZoneFactor) ==
    constrain(map(val, deadZoneFactor, MAX_ANALOG_POT_READING - deadZoneFactor,
                  0, MAX_ANALOG_POT_READING),
              0, MAX_ANALOG_POT_READING)

\* newValue of scan().
NewValue(val, minVal, maxVal) == map(val, 0, MAX_ANALOG_POT_READING, minVal, maxVal)

Write(b) == [op |-> "write", byte |-> b]
Handler(n, o, flag) == [op |-> "handler", new |-> n, old |-> o, hasChanged |-> flag]

\* Mutant of ChangedBase: the flag is set only when no handler is registered.
ChangedBaseLateFlag(pot, newValue, oldValue) ==
    IF pot.changeHandler
    THEN [ pot |-> [pot EXCEPT !.hasChanged = FALSE],
           trace |-> <<Handler(newValue, oldValue, pot.hasChanged)>> ]
    ELSE [ pot |-> [pot EXCEPT !.hasChanged = TRUE], trace |-> <<>> ]

\* ATPOT::changed(newValue, oldValue): the object after it, and what it did.
ChangedBase(pot, newValue, oldValue) ==
    IF pot.changeHandler
    THEN [ pot |-> [pot EXCEPT !.hasChanged = FALSE],
           trace |-> <<Handler(newValue, oldValue, TRUE)>> ]
    ELSE [ pot |-> [pot EXCEPT !.hasChanged = TRUE], trace |-> <<>> ]

\* Mutant of TableIndex: the index is mapped onto 0.._count.
TableIndexInclusive(newValue, count) == ToByte(map(newValue, 0, 127, 0, count))

\* byte index = map(newValue, 0, 127, 0, _count - 1)
TableIndex(newValue, count) == ToByte(map(newValue, 0, 127, 0, count - 1))

\* _varr[index]: the entry, or any byte when index is past the array.
TableEntries(varr, index) ==
    IF index < Len(varr) THEN {varr[index + 1]} ELSE {0, 255}

\* Mutant of Message: the control number is not written.
MessageNoControl(pot, v) == <<Write(pot.mesg), Write(constrain(v, 0, 127))>>

\* Mutant of Message: the value is written as it is, not constrained.
MessageUnclamped(pot, v) == <<Write(pot.mesg), Write(pot.cc), Write(v)>>

\* The bytes ATMIDICCPOT::changed gives to Serial.write, in order.
Message(pot, v) == <<Write(pot.mesg), Write(pot.cc), Write(constrain(v, 0, 127))>>

\* Mutant of ChangedMidi: the handler is called before the bytes are written.
ChangedMidiHandlerFirst(pot, v, oldValue) ==
    IF pot.changeHandler
    THEN [ pot |-> [pot EXCEPT !.hasChanged = FALSE],
           trace |-> <<Handler(v, oldValue, pot.hasChanged)>> \o Message(pot, v) ]
    ELSE [ pot |-> pot, trace |-> Message(pot, v) ]

\* ATMIDICCPOT::changed(newValue, oldValue) with _value = v.
ChangedMidi(pot, v, oldValue) ==
    IF pot.changeHandler
    THEN [ pot |-> [pot EXCEPT !.hasChanged = FALSE],
           trace |-> Message(pot, v) \o <<Handler(v, oldValue, pot.hasChanged)>> ]
    ELSE [ pot |-> pot, trace |-> Message(pot, v) ]

\* The values _value may take in ATMIDICCPOT::changed.
MidiValues(pot, newValue) ==
    IF pot.valueType
    THEN TableEntries(pot.varr, TableIndex(newValue, pot.count))
    ELSE {newValue}

\* The virtual call changed(newValue, oldVal): the possible outcomes.
Changed(pot, newValue, oldValue) ==
    IF pot.kind = "ATMIDICCPOT"
    THEN {ChangedMidi(pot, v, oldValue) : v \in MidiValues(pot, newValue)}
    ELSE {ChangedBase(pot, newValue, oldValue)}

\* The locals of scan() once aRead() has computed currentAverage.
LocalsFrom(pot, last, cur) ==
    LET d   == Debounce(cur, last, pot.debounceThreshold)
        val == Compensate(d.ret, pot.deadZoneFactor)
    IN  [ currentAverage |-> cur, ret |-> d.ret, lastAverage |-> d.lastAverage,
          moved |-> d.lastAverage # last, val |-> val, newValue |-> NewValue(val, pot.minVal, pot.maxVal) ]

\* The locals of one scan() of pot on the given readings with the given
\* static lastAverage (the sampling loop runs once: cur is bound to its result).
ScanLocals(pot, last, readings) ==
    CHOOSE l \in { LocalsFrom(pot, last, cur) :
                      cur \in {CurrentAverage(readings, pot.numReadings)} } : TRUE

\* Mutant of ScanOutcomes: changed() is called whether or not the value differs.
ScanOutcomesAlways(pot, l) ==
    Changed([pot EXCEPT !.lastReading = l.newValue, !.rawValue = l.val],
            ToByte(l.newValue), ToByte(pot.lastReading))

\* Mutant of ScanOutcomes: rawValue is stored whether or not the value differs.
ScanOutcomesRefreshRaw(pot, l) ==
    IF l.newValue # pot.lastReading
    THEN Changed([pot EXCEPT !.lastReading = l.newValue, !.rawValue = l.val],
                 ToByte(l.newValue), ToByte(pot.lastReading))
    ELSE {[pot |-> [pot EXCEPT !.rawValue = l.val], trace |-> <<>>]}

\* The body of scan() after the locals are computed: the possible outcomes.
ScanOutcomes(pot, l) ==
    IF l.newValue # pot.lastReading
    THEN Changed([pot EXCEPT !.lastReading = l.newValue, !.rawValue = l.val],
                 ToByte(l.newValue), ToByte(pot.lastReading))
    ELSE {[pot |-> pot, trace |-> <<>>]}

(***************************************************************************)
(* The record of the last call.                                            *)
(***************************************************************************)
NoCall ==
    [ op |-> "construct", pot |-> "", arg |-> 0, readings |-> <<>>,
      currentAverage |-> 0, ret |-> 0, moved |-> FALSE, val |-> 0,
      newValue |-> 0, trace |-> <<>> ]

Call(op, p, arg) == [NoCall EXCEPT !.op = op, !.pot = p, !.arg = arg]

\* No scan since the last configuration call.
NoStreak ==
    [pot |-> "", readings |-> <<>>, same |-> 0, direct |-> 0, drift |-> FALSE]

\* This scan of p, with batch average cur, follows directly a scan of p that
\* took its batch for noise, and cur is less than the threshold away from the
\* average of that batch.
DriftStep(p, cur) ==
    /\ ev.op = "scan" /\ ev.pot = p /\ fault = "none"
    /\ ev.ret # ev.currentAverage
    /\ cur # ev.currentAverage
    /\ abs(cur - ev.currentAverage) < pots[p].debounceThreshold

\* The streak after a scan of p on readings.  same: 2 when the scan before it
\* (calls of reset() aside) was a scan of p on the same readings, else 1.
\* direct: 2 when the call before it was a scan of p, else 1.
StreakAfterScan(p, readings) ==
    [ pot |-> p, readings |-> readings,
      same |-> IF streak.pot = p /\ streak.readings = readings THEN 2 ELSE 1,
      direct |-> IF streak.pot = p /\ streak.direct > 0 THEN 2 ELSE 1,
      drift |-> FALSE ]

(***************************************************************************)
(* Initial states: the instances the sketch constructs.                    *)
(***************************************************************************)
Handlers == BOOLEAN

\* scanned: scan() of the instance has returned at least once.
SoloOf(pot) ==
    [ lastAverage |-> 0, lastReading |-> pot.lastReading, trace |-> <<>>,
      scanned |-> FALSE ]

\* One ATMIDICCPOT, as constructed.
InitAdapter(raw) ==
    \E a \in MidiArgs :
        /\ pots = [p \in {"A"} |->
                     ATMIDICCPOT3(Members("ATMIDICCPOT", raw), a[1], a[2])]
        /\ ev = Call("ATMIDICCPOT", "A", a[1])

\* One instance, constructed by any of the constructors.
InitOne ==
    \E raw \in Indeterminate :
      \/ /\ pots = [p \in {"A"} |-> ATPOT1(Members("ATPOT", raw))]
         /\ ev = Call("ATPOT", "A", 0)
      \/ \E dz \in {10} :
           /\ pots = [p \in {"A"} |-> ATPOT2(Members("ATPOT", raw), dz)]
           /\ ev = Call("ATPOT", "A", 0)
      \/ \E a \in RangeArgs :
           /\ pots = [p \in {"A"} |-> ATPOT4(Members("ATPOT", raw), a[1], a[2], a[3])]
           /\ ev = Call("ATPOT", "A", 0)
      \/ \E a \in RangeArgs :
           /\ pots = [p \in {"A"} |->
                        ATPOT5(Members("ATPOT", raw), a[1], a[2], a[3], TRUE)]
           /\ ev = Call("ATPOT", "A", 0)
      \/ InitAdapter(raw)

\* One ATMIDICCPOT after a setup() that gives it a table and a handler:
\* the constructor, INIT(ch, cc, values, count), setChangeHandler(handler).
InitSetup ==
    \E raw \in Indeterminate, t \in Tables :
        /\ pots = [p \in {"A"} |->
                     [InitTable(ATMIDICCPOT3(Members("ATMIDICCPOT", raw), 1, 7),
                                1, 7, t, Len(t))
                        EXCEPT !.changeHandler = TRUE]]
        /\ ev = Call("setChangeHandler", "A", 1)

\* Two instances on distinct pins, left as constructed.
InitTwo ==
    \E raw \in Indeterminate :
        /\ pots = [p \in {"A", "B"} |->
                     IF p = "A"
                     THEN ATPOT5(Members("ATPOT", raw), 0, 1023, 1, TRUE)
                     ELSE ATMIDICCPOT3(Members("ATMIDICCPOT", raw), 1, 7)]
        /\ ev = Call("ATMIDICCPOT", "B", 1)

\* The rest of the state when the instances have been constructed.
Constructed ==
    /\ lastAverage = 0
    /\ solo = [p \in DOMAIN pots |-> SoloOf(pots[p])]
    /\ fault = "none"
    /\ streak = NoStreak

\* The sketch reconfigures an instance it has just constructed; the instances
\* of the other programs keep the configuration they start with.
Init ==
    /\ \/ InitOne /\ cfgCalls = 0
       \/ (InitSetup \/ InitTwo) /\ cfgCalls = MaxConfigCalls
    /\ Constructed

(***************************************************************************)
(* The calls.                                                              *)
(***************************************************************************)
Running == fault = "none"
MayConfigure == Running /\ cfgCalls < MaxConfigCalls

\* What the same scan does to an instance that has the process to itself.
SoloScan(p, readings) ==
    LET pot == [pots[p] EXCEPT !.lastReading = solo[p].lastReading]
    IN  UNION { { [ lastAverage |-> l.lastAverage,
                    lastReading |-> out.pot.lastReading,
                    trace |-> out.trace,
                    scanned |-> TRUE ] : out \in ScanOutcomes(pot, l) } :
                l \in {ScanLocals(pot, solo[p].lastAverage, readings)} }

\* Mutant of Divisors: the last map divides by the width of the output range.
DivisorsOutputSpan(pot) ==
    << pot.numReadings - 2,
       (MAX_ANALOG_POT_READING - pot.deadZoneFactor) - pot.deadZoneFactor,
       pot.maxVal - pot.minVal >>

\* The divisors of one scan(): _numReadings - 2 in aRead(), and in_max - in_min
\* of the two calls of map.
Divisors(pot) ==
    << pot.numReadings - 2,
       (MAX_ANALOG_POT_READING - pot.deadZoneFactor) - pot.deadZoneFactor,
       MAX_ANALOG_POT_READING - 0 >>

\* scan() of p ends in a fault: nothing is stored.
Faulted(p, readings, what) ==
    /\ fault' = what
    /\ ev' = [Call("scan", p, 0) EXCEPT !.readings = readings]
    /\ streak' = NoStreak
    /\ UNCHANGED <<pots, lastAverage, solo, cfgCalls>>

\* scan() of instance p while analogRead returns pat, repeated.  An array
\* int readings[_numReadings] of negative size is undefined: the call either
\* faults there or goes on (the loop does not run and the array is not used).
scan(p, pat) ==
    LET pot      == pots[p]
        readings == Readings(pat, pot.numReadings)
    IN  \/ /\ pot.numReadings < 0
           /\ Faulted(p, readings, "negative array size")
        \/ /\ \E i \in 1..3 : Divisors(pot)[i] = 0
           /\ Faulted(p, readings, "division by zero")
        \/ /\ \A i \in 1..3 : Divisors(pot)[i] # 0
           /\ \E l \in {ScanLocals(pot, lastAverage, readings)} :
                 \E out \in ScanOutcomes(pot, l) :
                   /\ pots' = [pots EXCEPT ![p] = out.pot]
                   /\ lastAverage' = l.lastAverage
                   /\ \E s \in SoloScan(p, readings) : solo' = [solo EXCEPT ![p] = s]
                   /\ streak' = [StreakAfterScan(p, readings) EXCEPT
                                   !.drift = DriftStep(p, l.currentAverage)]
                   /\ ev' = [ op |-> "scan", pot |-> p, arg |-> 0,
                              readings |-> readings,
                              currentAverage |-> l.currentAverage, ret |-> l.ret,
                              moved |-> l.moved, val |-> l.val, newValue |-> l.newValue,
                              trace |-> out.trace ]
                   /\ UNCHANGED <<fault, cfgCalls>>

\* reset()
reset(p) ==
    /\ pots' = [pots EXCEPT ![p].hasChanged = FALSE]
    /\ ev' = Call("reset", p, 0)
    /\ streak' = [streak EXCEPT !.direct = 0, !.drift = FALSE]
    /\ UNCHANGED <<lastAverage, solo, fault, cfgCalls>>

\* A configuration call that leaves the object as pot.
Configure(p, pot, op, arg) ==
    /\ pots' = [pots EXCEPT ![p] = pot]
    /\ cfgCalls' = cfgCalls + 1
    /\ ev' = Call(op, p, arg)
    /\ streak' = NoStreak
    /\ UNCHANGED <<lastAverage, solo, fault>>

\* Mutant of setNumReadings: counts below 3 are raised to 3.
setNumReadingsAtLeast3(p, num) ==
    Configure(p, [pots[p] EXCEPT !.numReadings = IF num < 3 THEN 3 ELSE num],
              "setNumReadings", num)

\* setNumReadings(num)
setNumReadings(p, num) ==
    Configure(p, [pots[p] EXCEPT !.numReadings = num], "setNumReadings", num)

\* setDebounceThreshold(threshold)
setDebounceThreshold(p, threshold) ==
    Configure(p, [pots[p] EXCEPT !.debounceThreshold = threshold],
              "setDebounceThreshold", threshold)

\* setDeadZone(deadZonePercent)
setDeadZone(p, percent) ==
    Configure(p, [pots[p] EXCEPT !.deadZonePercent = percent,
                                 !.deadZoneFactor = DeadZoneFactor(percent)],
              "setDeadZone", percent)

\* setChangeHandler(handler)
setChangeHandler(p, handler) ==
    Configure(p, [pots[p] EXCEPT !.changeHandler = handler],
              "setChangeHandler", IF handler THEN 1 ELSE 0)

\* INIT(ch, cc)
INIT(p, ch, cc) ==
    Configure(p, InitPlain(pots[p], ch, cc), "INIT(ch,cc)", ch)

\* INIT(ch, cc, values, count)
INITValues(p, ch, cc, values, count) ==
    Configure(p, InitTable(pots[p], ch, cc, values, count),
              "INIT(ch,cc,values,count)", ch)

(***************************************************************************)
(* The sketch: any call on any instance, with any of the arguments.        *)
(***************************************************************************)
Midi == {p \in DOMAIN pots : pots[p].kind = "ATMIDICCPOT"}

DoScan ==
    /\ Running
    /\ \E p \in DOMAIN pots, pat \in Patterns : scan(p, pat)

DoReset ==
    /\ Running
    /\ \E p \in DOMAIN pots : reset(p)

DoSetNumReadings ==
    /\ MayConfigure
    /\ \E p \in DOMAIN pots, num \in NumReadingsArgs : setNumReadings(p, num)

DoSetDebounceThreshold ==
    /\ MayConfigure
    /\ \E p \in DOMAIN pots, t \in Thresholds : setDebounceThreshold(p, t)

DoSetDeadZone ==
    /\ MayConfigure
    /\ \E p \in DOMAIN pots, dz \in DeadZones : setDeadZone(p, dz)

DoSetChangeHandler ==
    /\ MayConfigure
    /\ \E p \in DOMAIN pots, h \in Handlers : setChangeHandler(p, h)

DoINIT ==
    /\ MayConfigure
    /\ \E p \in Midi, ch \in Channels, cc \in ControlIds : INIT(p, ch, cc)

DoINITValues ==
    /\ MayConfigure
    /\ \E p \in Midi, ch \in Channels, cc \in ControlIds, t \in Tables :
          INITValues(p, ch, cc, t, Len(t))

Next ==
    \/ DoScan
    \/ DoReset
    \/ DoSetNumReadings
    \/ DoSetDebounceThreshold
    \/ DoSetDeadZone
    \/ DoSetChangeHandler
    \/ DoINIT
    \/ DoINITValues

Spec == Init /\ [][Next]_vars

(***************************************************************************)
(* The first INIT call on a constructed ATMIDICCPOT, with every channel    *)
(* byte.                                                                   *)
(***************************************************************************)
AllChannels == 0..255

InitChannels ==
    /\ \E raw \in Indeterminate : InitAdapter(raw)
    /\ cfgCalls = 0
    /\ Constructed

FirstINIT ==
    /\ Running /\ cfgCalls = 0
    /\ \E p \in Midi, ch \in AllChannels, cc \in ControlIds : INIT(p, ch, cc)

FirstINITValues ==
    /\ Running /\ cfgCalls = 0
    /\ \E p \in Midi, ch \in AllChannels, cc \in ControlIds, t \in Tables :
          INITValues(p, ch, cc, t, Len(t))

NextChannels == FirstINIT \/ FirstINITValues

SpecChannels == InitChannels /\ [][NextChannels]_vars

(***************************************************************************)
(* The first scan() of a configured instance on every averaged reading      *)
(* 0..1023; all readings of the batch are equal.  With debounce threshold 0 *)
(* aRead() returns the average of the batch.                                *)
(***************************************************************************)
\* Longest table of the short tables explored.
MaxTableLen == 4

SweepTables ==
    {[i \in 1..n |-> 10 * i] : n \in 1..MaxTableLen}
        \cup {[i \in 1..255 |-> (i - 1) % 128]}
\* <<minVal, maxVal>>
SweepRanges == {<<0, 127>>, <<0, 1023>>, <<-100, 300>>, <<5, 5>>, <<-32768, 32767>>}
SweepDeadZones == {0, 1, 10, 25, 49}
AveragedReadings == 0..MAX_ANALOG_POT_READING
\* Values outside 0..1023 that analogRead() is not expected to return.
OutOfRangeReadings == {-3000, -1, 1024, 3000}

\* <<threshold given to setDebounceThreshold, handler given to setChangeHandler>>
SweepSetups == {<<0, TRUE>>, <<5, FALSE>>, <<2000, TRUE>>}

InitSweep ==
    /\ \E raw \in Indeterminate, su \in SweepSetups :
          /\ \/ \E r \in SweepRanges, dz \in SweepDeadZones :
                   pots = [p \in {"A"} |->
                             [ATPOT4(Members("ATPOT", raw), r[1], r[2], dz)
                                EXCEPT !.changeHandler = su[2],
                                       !.debounceThreshold = su[1]]]
             \/ \E t \in SweepTables :
                   pots = [p \in {"A"} |->
                             [InitTable(ATMIDICCPOT3(Members("ATMIDICCPOT", raw), 1, 7),
                                        1, 7, t, Len(t))
                                EXCEPT !.changeHandler = su[2],
                                       !.debounceThreshold = su[1]]]
          /\ ev = Call("setDebounceThreshold", "A", su[1])
    /\ cfgCalls = MaxConfigCalls
    /\ Constructed

SweepScan ==
    /\ Running /\ ev.op # "scan"
    /\ \E p \in DOMAIN pots, a \in AveragedReadings \cup OutOfRangeReadings :
          scan(p, <<a>>)

NextSweep == SweepScan

SpecSweep == InitSweep /\ [][NextSweep]_vars

(***************************************************************************)
(* Arguments outside what the documentation asks for: sample counts below  *)
(* 3 and ranges of width zero.                                             *)
(***************************************************************************)
SampleCounts == {-1, 0, 1, 2, 3}
\* <<minVal, maxVal, deadZonePercent>>
EdgeRanges == {<<5, 5, 0>>, <<64, 64, 10>>, <<0, 127, 1>>}

InitEdge ==
    /\ \E raw \in Indeterminate, a \in EdgeRanges :
          pots = [p \in {"A"} |->
                    ATPOT5(Members("ATPOT", raw), a[1], a[2], a[3], TRUE)]
    /\ ev = Call("ATPOT", "A", 0)
    /\ cfgCalls = 0
    /\ Constructed

EdgeSetNumReadings ==
    /\ MayConfigure
    /\ \E p \in DOMAIN pots, num \in SampleCounts : setNumReadings(p, num)

NextEdge == EdgeSetNumReadings \/ DoScan \/ DoReset

SpecEdge == InitEdge /\ [][NextEdge]_vars

(***************************************************************************)
(* Properties.  A step is a scan that returned when ev' is a scan and no   *)
(* fault is set; the unprimed variables are then the state before it.      *)
(***************************************************************************)
Scanned == ev.op = "scan" /\ fault = "none"
Adapter(p) == pots[p].kind = "ATMIDICCPOT"
IsWrite(e) == e.op = "write"
IsHandler(e) == e.op = "handler"
BytesWritten(trace) == Len(SelectSeq(trace, IsWrite))
HandlerCalls(trace) == Len(SelectSeq(trace, IsHandler))
Clamp(x, lo, hi) == IF x < lo THEN lo ELSE IF x > hi THEN hi ELSE x

\* C1: every scan() of an ATMIDICCPOT whose mapped value differs from
\* _lastReading writes exactly 3 bytes to Serial, and every scan() whose mapped
\* value equals _lastReading writes none.
C1_ThreeBytesPerChange ==
    [][ (Scanned' /\ Adapter(ev'.pot)) =>
          BytesWritten(ev'.trace) =
             (IF ev'.newValue # pots[ev'.pot].lastReading THEN 3 ELSE 0) ]_vars

\* A scan of an ATMIDICCPOT that accepted a change and wrote three bytes.
C1_Witness ==
    /\ Scanned /\ Adapter(ev.pot)
    /\ pots[ev.pot].lastReading = ev.newValue
    /\ BytesWritten(ev.trace) = 3

\* The payload the claim expects for mapped value v: v itself, or the table
\* entry at the index floor(v * (len - 1) / 127).
ExpectedPayload(pot, v) ==
    IF pot.valueType
    THEN pot.varr[((v * (pot.count - 1)) \div 127) + 1]
    ELSE v

\* C2: on every accepted change of an ATMIDICCPOT the bytes written are, in
\* order, _mesg, _cc and the payload clamped into 0..127 (the mapped value, or
\* the selected table entry), and all three precede the handler call.
C2_MessageBeforeHandler ==
    [][ (Scanned' /\ Adapter(ev'.pot) /\ ev'.newValue # pots[ev'.pot].lastReading) =>
          LET t   == ev'.trace
              pot == pots[ev'.pot]
          IN  /\ Len(t) = IF pot.changeHandler THEN 4 ELSE 3
              /\ t[1] = Write(pot.mesg)
              /\ t[2] = Write(pot.cc)
              /\ t[3] = Write(Clamp(ExpectedPayload(pot, ev'.newValue), 0, 127))
              /\ pot.changeHandler => IsHandler(t[4]) ]_vars

\* An accepted change of an ATMIDICCPOT with a handler: three bytes, then the call.
C2_Witness ==
    /\ Scanned /\ Adapter(ev.pot)
    /\ Len(ev.trace) = 4
    /\ IsWrite(ev.trace[1]) /\ IsWrite(ev.trace[2]) /\ IsWrite(ev.trace[3])
    /\ IsHandler(ev.trace[4])

\* The calls that set _mesg from a channel argument (recorded in ev.arg).
ChannelCalls == {"ATMIDICCPOT", "INIT(ch,cc)", "INIT(ch,cc,values,count)"}

\* C3: after the constructor or either INIT with channel argument ch in 0..255,
\* _mesg = 0xAF + clamp(ch, 1, 16), which lies in 0xB0..0xBF; no call faults.
C3_StatusPrefix ==
    ev.op \in ChannelCalls =>
        /\ ev.arg \in 0..255
        /\ pots[ev.pot].mesg = 175 + Clamp(ev.arg, 1, 16)
        /\ ev.arg \in 1..16 => pots[ev.pot].mesg = 175 + ev.arg
        /\ ev.arg = 0 => pots[ev.pot].mesg = 176
        /\ ev.arg > 16 => pots[ev.pot].mesg = 191
        /\ fault = "none"

\* INIT with the out-of-range channel 20 gave 0xBF.
C3_Witness ==
    /\ ev.op = "INIT(ch,cc,values,count)"
    /\ ev.arg = 20
    /\ pots[ev.pot].mesg = 191

\* The bytes of the message a scan wrote, in order.
BytesOf(trace) == [i \in 1..BytesWritten(trace) |-> SelectSeq(trace, IsWrite)[i].byte]

\* C4 as stated: every message has its first byte in 0xB0..0xBF and its second
\* and third bytes in 0..127, whatever bytes were given as channel and control
\* number.
C4_AsStated ==
    (Scanned /\ Adapter(ev.pot) /\ BytesWritten(ev.trace) > 0) =>
        LET b == BytesOf(ev.trace)
        IN  /\ Len(b) = 3
            /\ b[1] \in 176..191
            /\ b[2] \in 0..127
            /\ b[3] \in 0..127

\* C4 amended: the first byte is in 0xB0..0xBF and the third in 0..127 for any
\* arguments and table contents; the second byte is the control number as it
\* was given (it is not clamped), so it is in 0..127 when the argument was.
C4_WireFormat ==
    (Scanned /\ Adapter(ev.pot) /\ BytesWritten(ev.trace) > 0) =>
        LET b == BytesOf(ev.trace)
        IN  /\ Len(b) = 3
            /\ b[1] \in 176..191
            /\ b[2] = pots[ev.pot].cc
            /\ pots[ev.pot].cc \in 0..127 => b[2] \in 0..127
            /\ b[3] \in 0..127

\* A message whose payload came from a table entry above 127 and was clamped.
C4_Witness ==
    /\ Scanned /\ Adapter(ev.pot) /\ BytesWritten(ev.trace) = 3
    /\ pots[ev.pot].valueType
    /\ pots[ev.pot].cc \in 0..127
    /\ ExpectedPayload(pots[ev.pot], ev.newValue) > 127
    /\ BytesOf(ev.trace)[3] = 127

\* C5: when scan() is called twice in a row on one instance (nothing but
\* reset() in between) and analogRead returns the same readings in both
\* batches, the second scan calls no handler, and hasChanged is false after it
\* if the change of the first scan had been acknowledged.
C5_ChangeSuppression ==
    [][ (Scanned' /\ streak'.same = 2) =>
          /\ HandlerCalls(ev'.trace) = 0
          /\ ~pots[ev'.pot].hasChanged => ~pots'[ev'.pot].hasChanged ]_vars

\* The second of two scans on the same readings, on an instance with a handler,
\* the first of which had reported a change: no call, flag clear.
C5_Witness ==
    /\ Scanned /\ streak.same = 2 /\ streak.direct = 2
    /\ pots[ev.pot].changeHandler
    /\ pots[ev.pot].lastReading = ev.newValue
    /\ ev.trace = <<>>
    /\ ~pots[ev.pot].hasChanged

RECURSIVE SeqSum(_)
SeqSum(q) == IF q = <<>> THEN 0 ELSE Head(q) + SeqSum(Tail(q))
Elems(q) == {q[i] : i \in DOMAIN q}
Least(S) == CHOOSE m \in S : \A x \in S : m <= x
Greatest(S) == CHOOSE m \in S : \A x \in S : m >= x

\* The batch less one occurrence of its minimum and one of its maximum.
Trimmed(q) == SeqSum(q) - Least(Elems(q)) - Greatest(Elems(q))

\* C6: for a batch of n >= 3 readings in 0..1023, currentAverage is the
\* truncated quotient of (sum - one minimum - one maximum) by n - 2; it is the
\* common reading when all readings are equal.
C6_TrimmedMean ==
    Scanned =>
        LET q == ev.readings
        IN  /\ Len(q) = pots[ev.pot].numReadings
            /\ Len(q) >= 3
            /\ Elems(q) \subseteq 0..MAX_ANALOG_POT_READING
            /\ ev.currentAverage = Trimmed(q) \div (Len(q) - 2)
            /\ Cardinality(Elems(q)) = 1 => ev.currentAverage = q[1]

\* A batch with distinct minimum and maximum whose quotient was truncated.
C6_Witness ==
    /\ Scanned
    /\ Cardinality(Elems(ev.readings)) = 3
    /\ Trimmed(ev.readings) % (Len(ev.readings) - 2) # 0
    /\ ev.currentAverage * (Len(ev.readings) - 2) < Trimmed(ev.readings)

Dist(a, b) == IF a < b THEN b - a ELSE a - b

\* C7: lastAverage starts at 0; a call of aRead whose currentAverage is less
\* than _debounceThreshold away from lastAverage returns lastAverage and leaves
\* it, and any other call (a distance equal to the threshold included) sets
\* lastAverage to currentAverage and returns it.
C7_DebounceRule ==
    /\ lastAverage = 0
    /\ [][ Scanned' =>
             IF Dist(ev'.currentAverage, lastAverage)
                   < pots[ev'.pot].debounceThreshold
             THEN ev'.ret = lastAverage /\ lastAverage' = lastAverage
             ELSE ev'.ret = ev'.currentAverage
                  /\ lastAverage' = ev'.currentAverage ]_vars

\* A call that took its batch for noise and returned the older average.
C7_Witness ==
    /\ Scanned
    /\ ev.ret # ev.currentAverage
    /\ ev.ret = lastAverage
    /\ Dist(ev.currentAverage, ev.ret) < pots[ev.pot].debounceThreshold

\* C8 as stated: of two consecutive calls of aRead on one instance whose
\* batch averages are within the threshold of each other, the second returns
\* what the first returned.
C8_AsStated ==
    [][ (Scanned /\ Scanned' /\ ev'.pot = ev.pot
         /\ Dist(ev'.currentAverage, ev.currentAverage)
               < pots[ev'.pot].debounceThreshold) =>
          ev'.ret = ev.ret ]_vars

\* C8 amended: of two consecutive calls of aRead on one instance, with no
\* other call in between, the second returns what the first returned whenever
\* its batch average is less than the threshold away from the value the first
\* call returned (not from the first call's batch average).
C8_DebounceIdempotence ==
    [][ (Scanned /\ Scanned' /\ ev'.pot = ev.pot
         /\ Dist(ev'.currentAverage, ev.ret)
               < pots[ev'.pot].debounceThreshold) =>
          ev'.ret = ev.ret ]_vars

\* The second of two consecutive calls, with a batch average that differs from
\* the value the first returned by less than the threshold.
C8_Witness ==
    /\ Scanned /\ streak.direct = 2
    /\ ev.currentAverage # ev.ret
    /\ Dist(ev.currentAverage, ev.ret) < pots[ev.pot].debounceThreshold

\* C9: with dead zone p percent (width below 1023/2) and minVal <= maxVal, a
\* scan whose averaged reading is at most 1023*p/100 maps to minVal, and one
\* whose averaged reading is at least 1023*(1 - p/100) maps to maxVal.
C9_DeadZone ==
    (Scanned /\ pots[ev.pot].minVal <= pots[ev.pot].maxVal
             /\ 2 * pots[ev.pot].deadZoneFactor < MAX_ANALOG_POT_READING) =>
        LET pot == pots[ev.pot]
        IN  /\ 100 * ev.ret <= MAX_ANALOG_POT_READING * pot.deadZonePercent
                  => ev.newValue = pot.minVal
            /\ 100 * ev.ret >= MAX_ANALOG_POT_READING * (100 - pot.deadZonePercent)
                  => ev.newValue = pot.maxVal

\* An averaged reading inside the upper dead zone, short of 1023, mapped to maxVal.
C9_Witness ==
    /\ Scanned
    /\ pots[ev.pot].deadZonePercent > 0
    /\ ev.ret < MAX_ANALOG_POT_READING
    /\ 100 * ev.ret >= MAX_ANALOG_POT_READING * (100 - pots[ev.pot].deadZonePercent)
    /\ ev.newValue = pots[ev.pot].maxVal
    /\ pots[ev.pot].minVal < pots[ev.pot].maxVal

\* C10: instances are independent: whatever scans of other instances are
\* interleaved, every instance accepts the values, and makes the handler calls
\* and writes, that it would if it were scanned alone on the same samples.
C10_Independent ==
    \A p \in DOMAIN pots :
        /\ solo[p].lastReading = pots[p].lastReading
        /\ (Scanned /\ ev.pot = p) => solo[p].trace = ev.trace

Base(p) == pots[p].kind = "ATPOT"

\* C11: on every accepted change of a base ATPOT hasChanged is set before the
\* handler runs; with a handler registered the handler is called exactly once,
\* with the new and the old mapped value (as the bytes scan() passes), and
\* hasChanged is false when scan() returns; with no handler hasChanged is true
\* when scan() returns and stays true over later scans that report no change,
\* until reset(), which sets it to false and changes nothing else.
C11_FlagProtocol ==
    [][ /\ (Scanned' /\ Base(ev'.pot)) =>
              LET p == ev'.pot
              IN  IF ev'.newValue # pots[p].lastReading
                  THEN IF pots[p].changeHandler
                       THEN /\ ev'.trace = <<Handler(ToByte(ev'.newValue),
                                                     ToByte(pots[p].lastReading),
                                                     TRUE)>>
                            /\ ~pots'[p].hasChanged
                       ELSE /\ ev'.trace = <<>>
                            /\ pots'[p].hasChanged
                  ELSE /\ ev'.trace = <<>>
                       /\ pots'[p].hasChanged = pots[p].hasChanged
        /\ ev'.op = "reset" =>
              /\ pots' = [pots EXCEPT ![ev'.pot].hasChanged = FALSE]
              /\ lastAverage' = lastAverage /\ fault' = fault ]_vars

\* A base ATPOT without handler whose flag, set by an earlier change, is still
\* true after a scan that reported no change.
C11_Witness ==
    /\ Scanned /\ Base(ev.pot) /\ streak.same = 2
    /\ ~pots[ev.pot].changeHandler
    /\ pots[ev.pot].lastReading = ev.newValue
    /\ ev.trace = <<>>
    /\ pots[ev.pot].hasChanged

\* C12: an ATMIDICCPOT follows the flag protocol of the base class: after a
\* scan() that accepts a change, hasChanged is true when scan() returns if no
\* handler is registered; with a handler registered it is true during the
\* handler call and false afterwards.
C12_AdapterFlag ==
    [][ (Scanned' /\ Adapter(ev'.pot)
         /\ ev'.newValue # pots[ev'.pot].lastReading) =>
          LET p == ev'.pot
              calls == SelectSeq(ev'.trace, IsHandler)
          IN  IF pots[p].changeHandler
              THEN /\ Len(calls) = 1
                   /\ calls[1].hasChanged
                   /\ ~pots'[p].hasChanged
              ELSE pots'[p].hasChanged ]_vars

\* C13: on every accepted change of an ATMIDICCPOT with a handler, the
\* handler's first argument is the payload that was written as the third byte
\* (after table lookup and clamping into 0..127), whatever the table holds,
\* and its second argument is the byte scan() made of the old _lastReading.
C13_HandlerGetsPayload ==
    [][ (Scanned' /\ Adapter(ev'.pot) /\ pots[ev'.pot].changeHandler
         /\ ev'.newValue # pots[ev'.pot].lastReading) =>
          LET calls == SelectSeq(ev'.trace, IsHandler)
              bytes == BytesOf(ev'.trace)
          IN  /\ Len(calls) = 1 /\ Len(bytes) = 3
              /\ bytes[3] \in 0..127
              /\ calls[1].new = bytes[3]
              /\ calls[1].old = ToByte(pots[ev'.pot].lastReading) ]_vars

\* C14: in indexed mode with a table of length len >= 1, for every mapped value
\* v in 0..127 the index floor(v * (len - 1) / 127) lies in 0..len-1 (the read
\* is inside the table) and the payload written is the table entry at that
\* index (clamped into 0..127, so the entry itself when it is at most 127).
C14_TableIndex ==
    (Scanned /\ Adapter(ev.pot) /\ pots[ev.pot].valueType
             /\ BytesWritten(ev.trace) > 0) =>
        LET pot == pots[ev.pot]
            v   == ev.newValue
            len == pot.count
            idx == (v * (len - 1)) \div 127
        IN  /\ v \in 0..127
            /\ len = Len(pot.varr) /\ len >= 1
            /\ idx \in 0..(len - 1)
            /\ BytesOf(ev.trace)[3] = Clamp(pot.varr[idx + 1], 0, 127)
            /\ pot.varr[idx + 1] <= 127 => BytesOf(ev.trace)[3] = pot.varr[idx + 1]

\* Table [10,20,30,40] and mapped value 100: the payload is 30 (index 2).
C14_Witness ==
    /\ Scanned /\ Adapter(ev.pot)
    /\ pots[ev.pot].varr = <<10, 20, 30, 40>>
    /\ ev.newValue = 100
    /\ BytesOf(ev.trace) = <<176, 7, 30>>

\* The remap of the claim: c + (v - a) * (d - c) / (b - a), for v >= a and d >= c.
RefRemap(v, a, b, c, d) == c + ((v - a) * (d - c)) \div (b - a)

\* The reference pipeline: clamp into [w, 1023 - w], remap onto [0, 1023],
\* remap onto [lo, hi].
RefMapped(a, w, lo, hi) ==
    RefRemap(RefRemap(Clamp(a, w, 1023 - w), w, 1023 - w, 0, 1023),
             0, 1023, lo, hi)

\* C15: for every averaged reading a in 0..1023, dead-zone width w with
\* 0 <= w < 1023/2 and minVal <= maxVal, the mapped value scan() computes is
\* that of the reference pipeline (clamp, remap, remap, truncating division).
C15_MatchesReference ==
    (Scanned /\ pots[ev.pot].minVal <= pots[ev.pot].maxVal
             /\ 0 <= pots[ev.pot].deadZoneFactor
             /\ 2 * pots[ev.pot].deadZoneFactor < 1023
             /\ ev.ret \in 0..1023) =>
        LET pot == pots[ev.pot]
        IN  /\ ev.newValue =
                  RefMapped(ev.ret, pot.deadZoneFactor, pot.minVal, pot.maxVal)
            /\ (pot.deadZoneFactor = 0 /\ pot.minVal = 0 /\ pot.maxVal = 127
                    /\ ev.readings[1] = 500 /\ ev.readings[2] = 500
                    /\ ev.readings[3] = 500 /\ ev.ret = 500)
                  => ev.newValue = 62

\* Range 0..127, no dead zone, readings of 500: the mapped value is 62.
C15_Witness ==
    /\ Scanned
    /\ pots[ev.pot].deadZoneFactor = 0
    /\ pots[ev.pot].minVal = 0 /\ pots[ev.pot].maxVal = 127
    /\ Elems(ev.readings) = {500} /\ ev.ret = 500
    /\ ev.newValue = 62
    /\ pots[ev.pot].lastReading = 62

\* C16: after every scan() that accepts a change, the public field value holds
\* the new mapped value, that is, it equals _lastReading.
C16_ValueField ==
    [][ (Scanned' /\ ev'.newValue # pots[ev'.pot].lastReading) =>
          /\ pots'[ev'.pot].lastReading = ev'.newValue
          /\ pots'[ev'.pot].value = ev'.newValue ]_vars

\* A step changes _lastReading or rawValue of instance p.
OutputMoves(p) ==
    \/ pots'[p].lastReading # pots[p].lastReading
    \/ pots'[p].rawValue # pots[p].rawValue

\* The step is a scan of p that reported a change.
ReportsChange(p) ==
    Scanned' /\ ev'.pot = p /\ ev'.newValue # pots[p].lastReading

\* C17 as stated: a scan() whose mapped value equals _lastReading leaves
\* rawValue, _lastReading, hasChanged and lastAverage unchanged, calls no
\* handler and writes no byte; rawValue, _lastReading and lastAverage change
\* only in a scan that reports a change.
C17_AsStated ==
    [][ /\ (Scanned' /\ ev'.newValue = pots[ev'.pot].lastReading) =>
              /\ pots' = pots
              /\ lastAverage' = lastAverage
              /\ ev'.trace = <<>>
        /\ \A p \in DOMAIN pots : OutputMoves(p) => ReportsChange(p)
        /\ lastAverage' # lastAverage =>
              \E p \in DOMAIN pots : ReportsChange(p) ]_vars

\* C17 amended: a scan() whose mapped value equals _lastReading leaves
\* rawValue, _lastReading and hasChanged (every member of every instance)
\* unchanged, calls no handler and writes no byte; rawValue and _lastReading of
\* an instance change only in a scan of it that reports a change; lastAverage
\* is set to the batch average by every aRead() whose batch average is at
\* least _debounceThreshold away from it, whether or not the scan reports a
\* change, and changes in no other way.
C17_NoChangeFrame ==
    [][ /\ (Scanned' /\ ev'.newValue = pots[ev'.pot].lastReading) =>
              /\ pots' = pots
              /\ ev'.trace = <<>>
        /\ \A p \in DOMAIN pots : OutputMoves(p) => ReportsChange(p)
        /\ Scanned' =>
              lastAverage' =
                 IF Dist(ev'.currentAverage, lastAverage)
                       < pots[ev'.pot].debounceThreshold
                 THEN lastAverage ELSE ev'.currentAverage
        /\ lastAverage' # lastAverage => Scanned' ]_vars

\* A scan that reported no change although its aRead() gave lastAverage a new
\* value: the mapped value is the stored _lastReading, and the compensated
\* reading is no longer the stored rawValue.
C17_Witness ==
    /\ Scanned /\ ev.moved
    /\ ev.trace = <<>>
    /\ pots[ev.pot].lastReading = ev.newValue
    /\ ev.val # pots[ev.pot].rawValue
    /\ lastAverage = ev.currentAverage

\* C18: for a base ATPOT with any range minVal <= maxVal (values below 0 or
\* above 255 included), the handler called on an accepted change receives the
\* new mapped value as new_value and the value _lastReading held before the
\* change as old_value, without wrap-around modulo 256 (the old value is
\* compared once a value has been accepted, that is, when it is not the
\* initial -1).
C18_HandlerValues ==
    [][ (Scanned' /\ Base(ev'.pot) /\ pots[ev'.pot].changeHandler
         /\ pots[ev'.pot].minVal <= pots[ev'.pot].maxVal
         /\ ev'.newValue # pots[ev'.pot].lastReading) =>
          LET calls == SelectSeq(ev'.trace, IsHandler)
          IN  /\ Len(calls) = 1
              /\ calls[1].new = ev'.newValue
              /\ pots[ev'.pot].lastReading # -1 =>
                    calls[1].old = pots[ev'.pot].lastReading ]_vars

\* setNumReadings(num) stored num as it was given, and raised no fault.
StoresCount ==
    ev'.op = "setNumReadings" =>
        pots'[ev'.pot].numReadings = ev'.arg /\ fault' = fault

\* C19 as stated: setNumReadings(num) stores any num without rejecting or
\* clamping it, and with _numReadings <= 2 the next scan() ends in a division
\* by zero in the averaging step (stated for the counts 1 and 2, for which
\* the array of readings has a positive size).
C19_AsStated ==
    [][ /\ StoresCount
        /\ (ev'.op = "scan" /\ pots[ev'.pot].numReadings \in 1..2) =>
              fault' = "division by zero" ]_vars

\* C19 amended: setNumReadings(num) stores any num unchanged; the next scan()
\* ends in a division by zero exactly when _numReadings = 2; with
\* _numReadings = 1 the divisor is -1 and the average is the single reading,
\* with _numReadings = 0 the divisor is -2 and the average is 511; with a
\* negative count the scan does not divide by zero either.
C19_SampleCountFaults ==
    [][ /\ StoresCount
        /\ ev'.op = "scan" =>
              LET n == pots[ev'.pot].numReadings
              IN  /\ fault' = "division by zero" <=> n = 2
                  /\ n \in {0, 1} => Scanned'
                  /\ n = 1 => ev'.currentAverage = ev'.readings[1]
                  /\ n = 0 => ev'.readings = <<>> /\ ev'.currentAverage = 511 ]_vars

\* The scan after setNumReadings(2): it ended in a division by zero.
C19_Witness ==
    /\ ev.op = "scan"
    /\ pots[ev.pot].numReadings = 2
    /\ Len(ev.readings) = 2
    /\ fault = "division by zero"

\* C20 as stated: a range with minVal = maxVal is accepted silently, and
\* scan() on it performs a division by zero in the linear remap.
C20_AsStated ==
    /\ (\E p \in DOMAIN pots : pots[p].minVal = pots[p].maxVal) => fault = "none"
    /\ [][ (ev'.op = "scan" /\ pots[ev'.pot].minVal = pots[ev'.pot].maxVal) =>
             fault' = "division by zero" ]_vars

\* C20 amended: a range with minVal = maxVal is accepted silently, and the
\* remap of scan() onto it does not divide by zero (map divides by the width of
\* the input range, 1023): unless the sample count makes the scan fault, it
\* returns with mapped value minVal, which is the only value ever stored.
C20_ZeroWidthRange ==
    /\ (\E p \in DOMAIN pots : pots[p].minVal = pots[p].maxVal) => fault = "none"
    /\ [][ (ev'.op = "scan" /\ pots[ev'.pot].minVal = pots[ev'.pot].maxVal) =>
             /\ Divisors(pots[ev'.pot])[3] = 1023
             /\ (pots[ev'.pot].numReadings >= 0 /\ pots[ev'.pot].numReadings # 2)
                   => Scanned'
             /\ fault' = "division by zero" => pots[ev'.pot].numReadings = 2
             /\ Scanned' =>
                   /\ ev'.newValue = pots[ev'.pot].minVal
                   /\ pots'[ev'.pot].lastReading = pots[ev'.pot].minVal ]_vars

\* A scan of an instance with range 5..5 on readings of 500: it returned,
\* with mapped value 5.
C20_Witness ==
    /\ Scanned
    /\ pots[ev.pot].minVal = 5 /\ pots[ev.pot].maxVal = 5
    /\ Elems(ev.readings) = {500}
    /\ ev.newValue = 5
    /\ pots[ev.pot].lastReading = 5

\* C21: in every reachable state of an instance with minVal <= maxVal,
\* _numReadings >= 3 and dead-zone width 0 <= w < 1023/2, _lastReading is its
\* initial -1 or lies in minVal..maxVal, whatever analogRead() returned
\* (values outside 0..1023 included): the compensated reading of every scan
\* lies in 0..1023.
C21_OutputInRange ==
    \A p \in DOMAIN pots :
        (/\ pots[p].minVal <= pots[p].maxVal
         /\ pots[p].numReadings >= 3
         /\ 0 <= pots[p].deadZoneFactor
         /\ 2 * pots[p].deadZoneFactor < MAX_ANALOG_POT_READING) =>
            /\ pots[p].lastReading = -1
                  \/ pots[p].lastReading \in pots[p].minVal..pots[p].maxVal
            /\ (Scanned /\ ev.pot = p) =>
                  /\ ev.val \in 0..MAX_ANALOG_POT_READING
                  /\ ev.newValue \in pots[p].minVal..pots[p].maxVal

\* A batch of readings of 3000: aRead() returned a value above 1023 and the
\* scan stored maxVal.
C21_Witness ==
    /\ Scanned
    /\ Elems(ev.readings) = {3000}
    /\ ev.ret > MAX_ANALOG_POT_READING
    /\ pots[ev.pot].minVal < pots[ev.pot].maxVal
    /\ pots[ev.pot].lastReading = pots[ev.pot].maxVal
    /\ ev.val = MAX_ANALOG_POT_READING

\* C22: the first scan() of an instance with 0 <= minVal <= maxVal reports a
\* change whatever the readings and the debounce threshold are: the handler,
\* if registered, is called exactly once, with old value 255, and an
\* ATMIDICCPOT writes one message; a first scan that reports nothing has a
\* range that contains -1.
C22_FirstScanReports ==
    [][ (Scanned' /\ ~solo[ev'.pot].scanned) =>
          LET pot   == pots[ev'.pot]
              calls == SelectSeq(ev'.trace, IsHandler)
          IN  /\ pot.lastReading = -1
              /\ (0 <= pot.minVal /\ pot.minVal <= pot.maxVal) =>
                    /\ ev'.newValue # pot.lastReading
                    /\ pots'[ev'.pot].lastReading = ev'.newValue
                    /\ Len(calls) = IF pot.changeHandler THEN 1 ELSE 0
                    /\ pot.changeHandler => calls[1].old = 255
                    /\ BytesWritten(ev'.trace) =
                          IF pot.kind = "ATMIDICCPOT" THEN 3 ELSE 0
              /\ ev'.newValue = pot.lastReading =>
                    /\ pot.minVal <= -1 /\ -1 <= pot.maxVal
                    /\ ev'.trace = <<>>
                    /\ pots' = pots ]_vars

\* The first scan of an instance with a handler, taken for noise by a
\* debounce threshold above every reading: the change is reported, with old
\* value 255.
C22_Witness ==
    /\ Scanned
    /\ pots[ev.pot].debounceThreshold > MAX_ANALOG_POT_READING
    /\ ev.ret = 0 /\ ev.currentAverage = 700
    /\ pots[ev.pot].minVal >= 0
    /\ HandlerCalls(ev.trace) = 1
    /\ SelectSeq(ev.trace, IsHandler)[1].old = 255
    /\ pots[ev.pot].lastReading = pots[ev.pot].minVal

\* C23: after every call of aRead() with _debounceThreshold >= 1 the value
\* returned is less than the threshold away from the batch average just
\* computed; the comparison is with the last accepted average, so a batch is
\* accepted (returned and remembered) as soon as its distance from the last
\* accepted average reaches the threshold, however small the step from the
\* batch before it.
C23_DriftAccepted ==
    [][ (Scanned' /\ pots[ev'.pot].debounceThreshold >= 1) =>
          LET t == pots[ev'.pot].debounceThreshold
          IN  /\ Dist(ev'.ret, ev'.currentAverage) < t
              /\ Dist(ev'.currentAverage, lastAverage) >= t =>
                    /\ ev'.ret = ev'.currentAverage
                    /\ lastAverage' = ev'.currentAverage
              /\ ev'.ret # ev'.currentAverage =>
                    /\ ev'.ret = lastAverage /\ lastAverage' = lastAverage
                    /\ Dist(ev'.currentAverage, lastAverage) < t ]_vars

\* A drift accepted: the scan before took its batch for noise, this batch is
\* less than the threshold away from that one, and it is returned and
\* remembered because it is far enough from the last accepted average.
C23_Witness ==
    /\ Scanned /\ streak.drift
    /\ pots[ev.pot].debounceThreshold >= 1
    /\ ev.moved
    /\ ev.ret = ev.currentAverage
    /\ lastAverage = ev.currentAverage

=============================================================================
